---- MODULE Spec2Model ----
(***************************************************************************)
(* Model of core/base_workflow.py: the retry_with_backoff decorator (RFR   *)
(* Level 1) and the BaseWorkflow contract (tenant validation, RFR Level 4  *)
(* alert, partial-success logging), with the MockWorkflow of               *)
(* tests/test_infrastructure.py as the concrete workflow.                  *)
(*                                                                         *)
(* One thread of control: a top-level call (constructor, execute, alert,   *)
(* log_partial_success, or a retry-wrapped method) runs to completion      *)
(* before the next one starts.  The retry wrapper is modelled step by step *)
(* (pc) because the wrapped function and time.sleep are its suspension    *)
(* points.                                                                 *)
(***************************************************************************)
EXTENDS Integers, Sequences, FiniteSets, TLC

\* ---------------------------------------------------------------- bounds
MaxRetries == 3
MaxBackoff == 2

\* ------------------------------------------------------------ input sets
Slots == {1, 2}

\* Python values passed as org_id: str, None, int, list (by length).
PyStr(s)  == [type |-> "str",  s |-> s,  n |-> 0]
PyNone    == [type |-> "none", s |-> "", n |-> 0]
PyInt(n)  == [type |-> "int",  s |-> "", n |-> n]
PyList(n) == [type |-> "list", s |-> "", n |-> n]

OrgInputs == {PyStr(""), PyStr("org_a"), PyStr("org_b"), PyNone,
              PyInt(0), PyInt(7), PyList(0), PyList(2)}

Messages == {"disk full"}
\* context argument: omitted/None, an empty dict, or a dict with keys
Contexts == {[none |-> TRUE, keys |-> {}], [none |-> FALSE, keys |-> {}],
             [none |-> FALSE, keys |-> {"step"}]}
Steps == {"ingest"}

\* exception classes the wrapped function may raise, and their bases
RaisedKinds == {"ValueError", "ConnectionError", "KeyboardInterrupt"}
Bases(k) == CASE k = "ValueError" -> {"ValueError", "Exception", "BaseException"}
              [] k = "ConnectionError" -> {"ConnectionError", "OSError", "Exception", "BaseException"}
              [] k = "KeyboardInterrupt" -> {"KeyboardInterrupt", "BaseException"}
              [] OTHER -> {k}
\* the `exceptions` tuples a policy is configured with
ExceptionTuples == {{"Exception"}, {"ValueError", "OSError"}}
Values == {"v1", "v2"}

NoExc == [kind |-> "none", id |-> 0]
NoOrg == [type |-> "unset", s |-> "", n |-> 0]

\* ------------------------------------------------------------ pure parts

\* Python truthiness of the org_id argument (`not org_id`)
Truthy(o) == CASE o.type = "str" -> o.s # ""
               [] o.type = "none" -> FALSE
               [] OTHER -> o.n # 0

IsStr(o) == o.type = "str"

\* mutant: the isinstance check is dropped
ValidOrgIdNoTypeCheck(o) == Truthy(o)

\* base_workflow.py:49, the negation of the guard that raises ValueError
ValidOrgId(o) == ~(~Truthy(o) \/ ~IsStr(o))

\* str() of the argument inside the f-strings of lines 53-54
Fmt(o) == CASE o.type = "str" -> o.s
            [] o.type = "none" -> "None"
            [] o.type = "int" -> IF o.n = 0 THEN "0" ELSE "7"
            [] OTHER -> "[...]"

\* base_workflow.py:53  f"{self.__class__.__name__}[{org_id}]"
LoggerName(cls, o) == cls \o "[" \o Fmt(o) \o "]"

\* mutant: the delay grows linearly
BackoffLinear(d, x) == d * (x + 1)

\* base_workflow.py:32  backoff_in_seconds * 2 ** x
Backoff(d, x) == d * 2^x

\* mutant: the budget test lets one more failure through
ExhaustedLate(x, r) == x = r + 1

\* base_workflow.py:28  x == retries
Exhausted(x, r) == x = r

\* mutant: every failure is caught
CatchesAll(kind, excs) == TRUE

\* base_workflow.py:27  `except exceptions`: isinstance against the tuple
Catches(kind, excs) == Bases(kind) \cap excs # {}

\* mutant: the failure is wrapped in a new exception
ReraiseWrapped(e) == [kind |-> "RetryError", id |-> e.id]

\* base_workflow.py:30  raise e
Reraise(e) == e

\* mutant: the wrapper drops the result
ReturnNothing(v) == "None"

\* base_workflow.py:26  return func(*args, **kwargs)
ReturnValue(v) == v

\* mutant: the warning numbers attempts from zero
AttemptLabelZeroBased(x) == x

\* base_workflow.py:34  (Attempt {x+1}/{retries})
AttemptLabel(x) == x + 1

\* mutant: the counter lives in the decorator closure and is not reset
AttemptCarried(prev) == prev

\* base_workflow.py:23  x = 0
InitialAttempt(prev) == 0

\* base_workflow.py:69  context or {}
ErrorContext(c) == IF c.none \/ c.keys = {} THEN {} ELSE c.keys

\* ----------------------------------------------------------------- state
VARIABLES
    wf,        \* Slots -> the workflow instance bound in that slot
    op,        \* the most recent top-level call and how it ended
    log,       \* records emitted by the most recent top-level call
    pc,        \* position inside retry_with_backoff.wrapper
    pol,       \* the decorator arguments of the wrapped method being run
    x,         \* the wrapper's attempt counter
    e,         \* the exception bound by `except exceptions as e`
    sleep,     \* the wrapper's local `sleep`
    h          \* history of the current wrapper invocation

vars == <<wf, op, log, pc, pol, x, e, sleep, h>>

NoWf == [live |-> FALSE, org_id |-> NoOrg, logger |-> "", sinkDown |-> FALSE]

NoPol == [retries |-> 0, backoff |-> 1, exceptions |-> {"Exception"}]

NoHist == [self |-> 0, calls |-> 0, fails |-> 0, funcExc |-> NoExc,
           events |-> <<>>, delays |-> <<>>, slept |-> 0,
           funcRet |-> "", result |-> "", raised |-> NoExc, exit |-> "none",
           prior |-> "none", priorSelf |-> 0]

NoOp == [name |-> "none", self |-> 0, arg |-> NoOrg, raised |-> "none", ret |-> ""]

Init ==
    /\ wf = [w \in Slots |-> NoWf]
    /\ op = NoOp
    /\ log = <<>>
    /\ pc = "idle"
    /\ pol = NoPol
    /\ x = 0
    /\ e = NoExc
    /\ sleep = 0
    /\ h = NoHist

\* no wrapper invocation is on the stack
Quiet == pc = "idle"

retryVars == <<pc, pol, x, e, sleep, h>>

\* -------------------------------------------------------------- workflow

\* base_workflow.py:48-54  BaseWorkflow.__init__ (via MockWorkflow)
Construct(w, o) ==
    /\ Quiet
    /\ ~wf[w].live
    /\ IF ~ValidOrgId(o)
       THEN /\ op' = [name |-> "__init__", self |-> w, arg |-> o,
                      raised |-> "ValueError", ret |-> ""]
            /\ log' = <<>>
            /\ wf' = wf
       ELSE /\ wf' = [wf EXCEPT ![w] = [live |-> TRUE, org_id |-> o,
                                         logger |-> LoggerName("MockWorkflow", o),
                                         sinkDown |-> FALSE]]
            /\ log' = <<[level |-> "INFO", logger |-> LoggerName("MockWorkflow", o),
                         msg |-> "Initialized workflow for Org: " \o Fmt(o)]>>
            /\ op' = [name |-> "__init__", self |-> w, arg |-> o,
                      raised |-> "none", ret |-> ""]
    /\ UNCHANGED retryVars

\* tests/test_infrastructure.py:60-61  MockWorkflow.execute
Execute(w) ==
    /\ Quiet
    /\ wf[w].live
    /\ op' = [name |-> "execute", self |-> w, arg |-> wf[w].org_id,
              raised |-> "none", ret |-> "Success for " \o Fmt(wf[w].org_id)]
    /\ log' = <<>>
    /\ wf' = wf
    /\ UNCHANGED retryVars

\* The sink behind self.logger of a constructed instance starts failing
\* (or recovers): the dependency rfr_level_4_alert logs to.  A call on a
\* logger whose sink is down raises into its caller.  self.logger is bound
\* afresh by __init__ (line 53), so the sink of an instance can only be
\* taken down once the instance exists; the module-level logger used by
\* retry_with_backoff is a different object and stays up.
SetSink(w, down) ==
    /\ Quiet
    /\ wf[w].live
    /\ wf[w].sinkDown # down
    /\ wf' = [wf EXCEPT ![w].sinkDown = down]
    /\ UNCHANGED <<op, log>>
    /\ UNCHANGED retryVars

\* mutant: the alert stores its message over the tenant id
rfr_level_4_alert_rebinds(w, message, context) ==
    /\ Quiet
    /\ wf[w].live
    /\ wf' = [wf EXCEPT ![w].org_id = PyStr(message)]
    /\ op' = [name |-> "rfr_level_4_alert", self |-> w, arg |-> wf[w].org_id,
              raised |-> "none", ret |-> "None"]
    /\ log' = <<>>
    /\ UNCHANGED retryVars

\* base_workflow.py:64-73  BaseWorkflow.rfr_level_4_alert
\* The body has no try/except: what self.logger.critical raises leaves
\* the method.
rfr_level_4_alert(w, message, context) ==
    /\ Quiet
    /\ wf[w].live
    /\ LET error_context == ErrorContext(context)
       IN IF wf[w].sinkDown
          THEN /\ op' = [name |-> "rfr_level_4_alert", self |-> w, arg |-> wf[w].org_id,
                         raised |-> "SinkError", ret |-> ""]
               /\ log' = <<>>
          ELSE /\ op' = [name |-> "rfr_level_4_alert", self |-> w, arg |-> wf[w].org_id,
                         raised |-> "none", ret |-> "None"]
               /\ log' = <<[level |-> "CRITICAL", logger |-> wf[w].logger,
                            org |-> Fmt(wf[w].org_id), message |-> message,
                            context |-> error_context]>>
    /\ wf' = wf
    /\ UNCHANGED retryVars

\* base_workflow.py:75-77  BaseWorkflow.log_partial_success
log_partial_success(w, step_name) ==
    /\ Quiet
    /\ wf[w].live
    /\ IF wf[w].sinkDown
       THEN /\ op' = [name |-> "log_partial_success", self |-> w, arg |-> wf[w].org_id,
                      raised |-> "SinkError", ret |-> ""]
            /\ log' = <<>>
       ELSE /\ op' = [name |-> "log_partial_success", self |-> w, arg |-> wf[w].org_id,
                      raised |-> "none", ret |-> "None"]
            /\ log' = <<[level |-> "INFO", logger |-> wf[w].logger,
                         msg |-> "Step completed", step |-> step_name]>>
    /\ wf' = wf
    /\ UNCHANGED retryVars

\* ------------------------------------------------- retry_with_backoff

Policies == [retries : 0..MaxRetries, backoff : 1..MaxBackoff,
             exceptions : ExceptionTuples]

\* base_workflow.py:22-24  wrapper entered: x = 0, `while True`
\* (a method decorated with policy p is called on instance w)
Call(w, p) ==
    /\ Quiet
    /\ wf[w].live
    /\ pol' = p
    /\ x' = InitialAttempt(x)
    /\ e' = NoExc
    /\ sleep' = 0
    /\ pc' = "try"
    /\ h' = [NoHist EXCEPT !.self = w, !.prior = h.prior, !.priorSelf = h.priorSelf]
    /\ op' = [name |-> "wrapper", self |-> w, arg |-> wf[w].org_id,
              raised |-> "none", ret |-> ""]
    /\ log' = <<>>
    /\ UNCHANGED wf

\* base_workflow.py:26  func(*args, **kwargs) is entered
FuncCall ==
    /\ pc = "try"
    /\ pc' = "in_func"
    /\ h' = [h EXCEPT !.calls = @ + 1, !.events = Append(@, "call")]
    /\ UNCHANGED <<wf, op, log, pol, x, e, sleep>>

\* base_workflow.py:26  func returns v; the wrapper returns it
FuncReturn(v) ==
    /\ pc = "in_func"
    /\ pc' = "returned"
    /\ h' = [h EXCEPT !.funcRet = v, !.result = ReturnValue(v), !.exit = "returned", !.events = Append(@, "return")]
    /\ op' = [op EXCEPT !.ret = ReturnValue(v)]
    /\ UNCHANGED <<wf, log, pol, x, e, sleep>>

\* base_workflow.py:26-27  func raises an exception of class k: a new
\* object each time (id = the attempt it came from).  It is bound to e when
\* the except clause matches and leaves the wrapper otherwise.
FuncRaise(k) ==
    /\ pc = "in_func"
    /\ LET exc == [kind |-> k, id |-> h.calls]
       IN IF Catches(k, pol.exceptions)
          THEN /\ e' = exc
               /\ pc' = "except"
               /\ h' = [h EXCEPT !.funcExc = exc, !.fails = @ + 1,
                                 !.events = Append(@, "fail")]
               /\ op' = op
          ELSE /\ e' = e
               /\ pc' = "raised"
               /\ h' = [h EXCEPT !.funcExc = exc, !.raised = exc,
                                 !.exit = "propagated",
                                 !.events = Append(@, "propagate")]
               /\ op' = [op EXCEPT !.raised = k]
    /\ UNCHANGED <<wf, log, pol, x, sleep>>

\* base_workflow.py:28-30  budget spent: log the error, raise e
GiveUp ==
    /\ pc = "except"
    /\ Exhausted(x, pol.retries)
    /\ log' = Append(log, [level |-> "ERROR", logger |-> "core.base_workflow",
                           retries |-> pol.retries])
    /\ pc' = "raised"
    /\ h' = [h EXCEPT !.raised = Reraise(e), !.exit = "exhausted",
                      !.events = Append(@, "raise")]
    /\ op' = [op EXCEPT !.raised = Reraise(e).kind]
    /\ UNCHANGED <<wf, pol, x, e, sleep>>

\* base_workflow.py:32-36  compute the delay, log the warning, enter
\* time.sleep(sleep)
BeginSleep ==
    /\ pc = "except"
    /\ ~Exhausted(x, pol.retries)
    /\ sleep' = Backoff(pol.backoff, x)
    /\ log' = Append(log, [level |-> "WARNING", logger |-> "core.base_workflow",
                           sleep |-> sleep', attempt |-> AttemptLabel(x),
                           retries |-> pol.retries, exc |-> e])
    /\ pc' = "sleeping"
    /\ h' = [h EXCEPT !.events = Append(@, "sleep")]
    /\ UNCHANGED <<wf, op, pol, x, e>>

\* base_workflow.py:36-37  time.sleep returns; x += 1; loop
EndSleep ==
    /\ pc = "sleeping"
    /\ x' = x + 1
    /\ pc' = "try"
    /\ h' = [h EXCEPT !.delays = Append(@, sleep), !.slept = @ + sleep,
                      !.events = Append(@, "wake")]
    /\ UNCHANGED <<wf, op, log, pol, e, sleep>>

\* base_workflow.py:26,30  the wrapper's frame is left (by the return or
\* the raise): its locals are gone.  The model keeps the counter's last
\* value in x, for InitialAttempt to overwrite, and how the invocation ended.
Leave ==
    /\ pc \in {"returned", "raised"}
    /\ pc' = "idle"
    /\ pol' = NoPol
    /\ e' = NoExc
    /\ sleep' = 0
    /\ h' = [NoHist EXCEPT !.prior = h.exit, !.priorSelf = h.self]
    /\ UNCHANGED <<wf, op, log, x>>

Next ==
    \/ \E w \in Slots, o \in OrgInputs : Construct(w, o)
    \/ \E w \in Slots : Execute(w)
    \/ \E w \in Slots, down \in BOOLEAN : SetSink(w, down)
    \/ \E w \in Slots, m \in Messages, c \in Contexts : rfr_level_4_alert(w, m, c)
    \/ \E w \in Slots, s \in Steps : log_partial_success(w, s)
    \/ \E w \in Slots, p \in Policies : Call(w, p)
    \/ FuncCall
    \/ \E v \in Values : FuncReturn(v)
    \/ \E k \in RaisedKinds : FuncRaise(k)
    \/ GiveUp
    \/ BeginSleep
    \/ EndSleep
    \/ Leave

Spec == Init /\ [][Next]_vars

\* ----------------------------------------------------------- properties

InWrapper == op.name = "wrapper" /\ pc # "idle"

\* the retryable set, read off the policy and the class hierarchy
Retryable(k) == \E c \in pol.exceptions : c \in Bases(k)

Pow2(n) == 2^n

Last(s) == s[Len(s)]

Count(s, a) == Cardinality({i \in 1..Len(s) : s[i] = a})

Levels(lvl) == {i \in 1..Len(log) : log[i].level = lvl}

\* C1: when every attempt fails with a retryable kind, the wrapped function
\* is invoked exactly retries + 1 times (retries = 0 included) and the
\* failure the caller gets is the very exception the function raised last.
TheoremC1 ==
    InWrapper /\ h.fails = h.calls =>
        /\ h.calls <= pol.retries + 1
        /\ pc = "raised" =>
              /\ h.calls = pol.retries + 1
              /\ h.raised = h.funcExc
              /\ h.raised.id = h.calls
              /\ op.raised = h.funcExc.kind

WitnessC1 ==
    /\ InWrapper /\ pc = "raised" /\ h.fails = h.calls
    /\ pol.retries = 2 /\ h.calls = 3 /\ h.raised = h.funcExc

\* C2: a failure whose class is outside the retryable set leaves the wrapper
\* at once: it is the failure the caller gets, no attempt and no sleep
\* follows it, and on the first attempt that is one invocation, zero delay.
TheoremC2 ==
    InWrapper /\ h.funcExc # NoExc /\ ~Retryable(h.funcExc.kind) =>
        /\ pc = "raised" /\ h.exit = "propagated"
        /\ h.raised = h.funcExc
        /\ h.calls = h.funcExc.id
        /\ Last(h.events) = "propagate"
        /\ Len(h.delays) = h.calls - 1
        /\ Count(h.events, "sleep") = h.calls - 1
        /\ h.funcExc.id = 1 => h.calls = 1 /\ h.slept = 0 /\ h.delays = <<>>

WitnessC2 ==
    /\ InWrapper /\ h.exit = "propagated" /\ ~Retryable(h.funcExc.kind)
    /\ h.calls = 1 /\ h.slept = 0 /\ pol.retries >= 1

\* C3: rfr_level_4_alert never lets a failure reach its caller, also when
\* the sink it logs to fails.
ClaimC3 == op.name = "rfr_level_4_alert" => op.raised = "none"

\* C4: the constructor raises ValueError, binds no org_id and logs nothing
\* for an empty, None or non-str argument; for a non-empty str it succeeds
\* with org_id equal to the argument.
TheoremC4 ==
    op.name = "__init__" =>
        IF op.arg.type = "str" /\ op.arg.s # ""
        THEN /\ op.raised = "none"
             /\ wf[op.self].live
             /\ wf[op.self].org_id = op.arg
             /\ Len(log) = 1 /\ log[1].level = "INFO"
        ELSE /\ op.raised = "ValueError"
             /\ ~wf[op.self].live
             /\ wf[op.self].org_id = NoOrg
             /\ log = <<>>

WitnessC4 ==
    /\ op.name = "__init__" /\ op.arg = PyInt(7) /\ op.raised = "ValueError"
    /\ \E w \in Slots : wf[w].live /\ wf[w].org_id = PyStr("org_b")

\* C5: the k-th sleep lasts backoff * 2^(k-1), and when every attempt fails
\* with a retryable kind the sleeps before the final failure add up to
\* backoff * (2^retries - 1).
TheoremC5 ==
    InWrapper =>
        /\ \A k \in 1..Len(h.delays) : h.delays[k] = pol.backoff * Pow2(k - 1)
        /\ pc = "sleeping" => sleep = pol.backoff * Pow2(Len(h.delays))
        /\ h.exit = "exhausted" =>
              /\ Len(h.delays) = pol.retries
              /\ h.slept = pol.backoff * (Pow2(pol.retries) - 1)

WitnessC5 ==
    /\ InWrapper /\ h.exit = "exhausted"
    /\ pol.retries = 3 /\ pol.backoff = 2 /\ h.slept = 14
    /\ h.delays = <<2, 4, 8>>

\* C6: when the function fails retryably j <= retries times and then
\* succeeds, the wrapper returns the function's value, raises nothing, has
\* invoked it j + 1 times, and does nothing after the successful attempt;
\* the wrapper does not give up before retries + 1 failures.
TheoremC6 ==
    InWrapper =>
        /\ h.exit = "returned" =>
              /\ pc = "returned"
              /\ h.result = h.funcRet /\ op.ret = h.funcRet
              /\ op.raised = "none" /\ h.raised = NoExc
              /\ h.calls = h.fails + 1
              /\ h.fails <= pol.retries
              /\ Last(h.events) = "return"
              /\ Count(h.events, "call") = h.calls
              /\ Len(h.delays) = h.fails
              /\ h.fails = 0 => h.slept = 0
        /\ h.exit = "exhausted" => h.fails = pol.retries + 1

WitnessC6 ==
    /\ InWrapper /\ h.exit = "returned" /\ h.result = "v2"
    /\ pol.retries = 2 /\ h.fails = 2 /\ h.calls = 3

\* C7: once constructed, an instance keeps its org_id and its logger name
\* through every later call, successful or failed.
TheoremC7 ==
    [][\A w \in Slots : wf[w].live =>
          /\ wf'[w].live
          /\ wf'[w].org_id = wf[w].org_id
          /\ wf'[w].logger = wf[w].logger
          /\ wf'[w].logger = LoggerName("MockWorkflow", wf[w].org_id)]_vars

WitnessC7 ==
    /\ op.name = "rfr_level_4_alert" /\ op.raised = "SinkError"
    /\ wf[op.self].live /\ wf[op.self].org_id = PyStr("org_a")
    /\ h.prior = "exhausted" /\ h.priorSelf = op.self

\* the events of one invocation: each is followed only by what the loop
\* allows after it
Follows(a, b) ==
    CASE a = "call" -> b \in {"return", "fail", "propagate"}
      [] a = "fail" -> b \in {"sleep", "raise"}
      [] a = "sleep" -> b = "wake"
      [] a = "wake" -> b = "call"
      [] OTHER -> FALSE

\* C8: attempts are sequential, and a backoff wait happens only between a
\* failed retryable attempt and the next attempt: never first, never after
\* a success, a non-retryable failure or the last exhausted attempt.
TheoremC8 ==
    InWrapper =>
        /\ h.events # <<>> => h.events[1] = "call"
        /\ \A i \in 1..(Len(h.events) - 1) : Follows(h.events[i], h.events[i + 1])
        /\ Count(h.events, "sleep") <= pol.retries
        /\ pc = "sleeping" <=> (h.events # <<>> /\ Last(h.events) = "sleep")
        /\ pc = "in_func" <=> (h.events # <<>> /\ Last(h.events) = "call")
        /\ pc = "try" <=> (h.events = <<>> \/ Last(h.events) = "wake")
        /\ pc \in {"returned", "raised"} <=> (h.events # <<>> /\ Last(h.events) \in {"return", "propagate", "raise"})

WitnessC8 ==
    /\ InWrapper /\ pc = "raised" /\ pol.retries = 2
    /\ h.events = <<"call", "fail", "sleep", "wake", "call", "fail", "sleep",
                    "wake", "call", "fail", "raise">>

\* C9: the k-th retry is announced by one warning carrying k, retries and
\* the delay backoff * 2^(k-1); one error record is logged when the budget
\* is spent and none otherwise; a non-retryable failure logs nothing.
TheoremC9 ==
    InWrapper =>
        /\ Cardinality(Levels("WARNING")) = Count(h.events, "sleep")
        /\ \A k \in 1..Count(h.events, "sleep") :
              /\ log[k].level = "WARNING"
              /\ log[k].attempt = k
              /\ log[k].retries = pol.retries
              /\ log[k].sleep = pol.backoff * Pow2(k - 1)
              /\ log[k].exc.id = k
        /\ Cardinality(Levels("ERROR")) = IF h.exit = "exhausted" THEN 1 ELSE 0
        /\ h.exit = "exhausted" => Last(log).level = "ERROR" /\ Last(log).retries = pol.retries
        /\ h.exit = "propagated" => Len(log) = h.calls - 1
        /\ Len(log) = Cardinality(Levels("WARNING")) + Cardinality(Levels("ERROR"))

WitnessC9 ==
    /\ InWrapper /\ h.exit = "exhausted" /\ pol.retries = 2 /\ pol.backoff = 2
    /\ Len(log) = 3 /\ log[2].attempt = 2 /\ log[2].sleep = 4
    /\ log[3].level = "ERROR"

\* C10: the attempt counter starts at zero in every invocation: whatever
\* earlier invocations did, on this or another instance, the next one has
\* its full budget of retries + 1 attempts and its first delay is backoff.
TheoremC10 ==
    InWrapper /\ h.prior # "none" =>
        /\ h.calls = 0 => x = 0
        /\ x = Len(h.delays)
        /\ h.calls <= pol.retries + 1
        /\ Len(h.delays) >= 1 => h.delays[1] = pol.backoff
        /\ h.exit = "exhausted" => h.calls = pol.retries + 1

WitnessC10 ==
    /\ InWrapper /\ h.prior = "exhausted" /\ h.priorSelf # h.self
    /\ h.exit = "exhausted" /\ pol.retries = 2 /\ h.calls = 3
    /\ h.delays[1] = pol.backoff
====
